---- MODULE Spec2Model ----
(***************************************************************************)
(* Model of the fluvio-helm client: the mapping from typed requests to    *)
(* `helm` argument vectors and from subprocess outcomes (exit status,     *)
(* stdout, stderr) to typed results.                                      *)
(*                                                                         *)
(* The repository holds two generations of the client:                    *)
(*   "lib"          src/src/lib.rs (InstallArg, UninstallArg, HelmClient) *)
(*   "helm_client"  src/src/helm_client.rs with install_arg.rs,           *)
(*                  uninstall_arg.rs, get_installed_arg.rs, ...           *)
(* `variant` fixes which one a behaviour runs.                            *)
(*                                                                         *)
(* Three specifications share the module:                                 *)
(*   Spec         one caller calling the HelmClient operations in turn    *)
(*   SpecRace     uninstall calls of two callers and other actors on one  *)
(*                cluster, split where uninstall waits for its lookup     *)
(*   SpecBuilder  InstallArg::new followed by a chain of builder calls    *)
(* Each keeps the variables of the other two at rest.                     *)
(*                                                                         *)
(* Bytes are integers 0..255; a text is a sequence of bytes.  Command     *)
(* line tokens are strings.  Option<T> is a sequence of length <= 1.      *)
(***************************************************************************)
EXTENDS Integers, Sequences, FiniteSets, TLC

VARIABLES
    variant,    \* which generation of the code runs
    client,     \* "none" until HelmClient::new returned Ok, then "ready"
    op,         \* the call that just returned: its name and arguments
                \* ("idle" between calls)
    runs,       \* the subprocesses that call started, in order
    result,     \* what that call returned
    failed,     \* some earlier call on this client returned an error
    cluster,    \* SpecRace: the releases installed, as <<name, namespace>>
    pc,         \* SpecRace: where each caller's uninstall stands
    calls,      \* SpecRace: each caller's uninstall, its subprocesses and
                \* its result
    built,      \* SpecBuilder: the InstallArg under construction
    chain       \* SpecBuilder: the builder calls made so far, in order

vars == <<variant, client, op, runs, result, failed,
          cluster, pc, calls, built, chain>>

Variants == {"lib", "helm_client"}

(***************************************************************************)
(* Bounds of the model.                                                    *)
(***************************************************************************)
MaxAffixLen == 1    \* bytes before / after the marker in an output
MaxItems == 2       \* elements of a decoded JSON array
MaxVerLen == 3      \* bytes of a `helm version --short` output
MaxOpts == 2        \* (key, value) overrides of an InstallArg
MaxValues == 1      \* value files of an InstallArg
MaxCalls == 3       \* builder calls made on one InstallArg

(***************************************************************************)
(* Byte texts.                                                             *)
(***************************************************************************)
\* "Kubernetes cluster unreachable"
Marker ==
    <<75, 117, 98, 101, 114, 110, 101, 116, 101, 115, 32, 99, 108, 117, 115,
      116, 101, 114, 32, 117, 110, 114, 101, 97, 99, 104, 97, 98, 108, 101>>

\* "version"
VersionWord == <<118, 101, 114, 115, 105, 111, 110>>

\* str::contains: needle occurs in hay as a contiguous run
Contains(hay, needle) ==
    \E i \in 0..(Len(hay) - Len(needle)) :
        SubSeq(hay, i + 1, i + Len(needle)) = needle

IsCont(b) == b \in 128..191

\* String::from_utf8 succeeds: b is well-formed UTF-8 from position i on
RECURSIVE ValidUtf8From(_, _)
ValidUtf8From(b, i) ==
    IF i > Len(b) THEN TRUE
    ELSE LET c == b[i]
             has(n) == i + n <= Len(b)
         IN  IF c \in 0..127 THEN ValidUtf8From(b, i + 1)
             ELSE IF c \in 194..223
                  THEN has(1) /\ IsCont(b[i + 1]) /\ ValidUtf8From(b, i + 2)
             ELSE IF c \in 224..239
                  THEN /\ has(2)
                       /\ b[i + 1] \in (IF c = 224 THEN 160..191
                                        ELSE IF c = 237 THEN 128..159
                                        ELSE 128..191)
                       /\ IsCont(b[i + 2])
                       /\ ValidUtf8From(b, i + 3)
             ELSE IF c \in 240..244
                  THEN /\ has(3)
                       /\ b[i + 1] \in (IF c = 240 THEN 144..191
                                        ELSE IF c = 244 THEN 128..143
                                        ELSE 128..191)
                       /\ IsCont(b[i + 2])
                       /\ IsCont(b[i + 3])
                       /\ ValidUtf8From(b, i + 4)
             ELSE FALSE

ValidUtf8(b) == ValidUtf8From(b, 1)

\* The bytes the environment puts around a word: 'W' and the byte 0xFF,
\* which no UTF-8 text holds.
AffixBytes == {87, 255}

RECURSIVE SeqsUpTo(_, _)
SeqsUpTo(S, n) ==
    IF n = 0 THEN {<<>>}
    ELSE LET shorter == SeqsUpTo(S, n - 1)
         IN  shorter \cup {Append(s, x) : s \in shorter, x \in S}

\* ... and the two bytes of U+00E9, a well-formed two-byte character
Affixes == SeqsUpTo(AffixBytes, MaxAffixLen) \cup {<<195, 169>>}

\* Outputs with `word`, `word` cut short by a byte, or nothing in the middle
Around(word) ==
    {p \o m \o s : p \in Affixes, s \in Affixes,
                   m \in {<<>>, word, SubSeq(word, 1, Len(word) - 1)}}

StdErrs == Around(Marker)

\* The stderr texts every stdout is paired with
FewStdErrs == {<<>>, Marker, <<87>>, <<255>>, <<87>> \o Marker}

(***************************************************************************)
(* Results.  Every result has the same fields; an operation fills the     *)
(* ones its return type has.                                               *)
(***************************************************************************)
Ok0 == [kind |-> "Ok", err |-> "none", list |-> <<>>, flag |-> FALSE, text |-> <<>>]
OkList(l) == [Ok0 EXCEPT !.list = l]
OkFlag(b) == [Ok0 EXCEPT !.flag = b]
OkText(t) == [Ok0 EXCEPT !.text = t]
Err(e) == [Ok0 EXCEPT !.kind = "Err", !.err = e]
ErrText(e, t) == [Ok0 EXCEPT !.kind = "Err", !.err = e, !.text = t]

(***************************************************************************)
(* The execution boundary.  A response is what one subprocess did:        *)
(*   status  "spawn_failed" | "exit0" | "exit_nonzero" | "signal"         *)
(*   out     stdout as bytes (version probes)                             *)
(*   json    stdout as a JSON document (read operations)                  *)
(*   stderr  stderr as bytes                                               *)
(***************************************************************************)
Statuses == {"spawn_failed", "exit0", "exit_nonzero", "signal"}

\* CommandExt::result(): Ok(output) only when the process ran and exited
\* with code 0; every other outcome is an error that `?` returns at once.
CommandResult(resp) ==
    IF resp.status = "exit0" THEN Ok0 ELSE Err("CommandError")

\* Command::output().map_err(HelmError::HelmNotInstalled): only a failure
\* to spawn is an error; the exit status is not looked at.
CommandOutput(resp) ==
    IF resp.status = "spawn_failed" THEN Err("HelmNotInstalled") ELSE Ok0

Run(argv, resp) == [argv |-> argv, resp |-> resp]

(***************************************************************************)
(* JSON documents on stdout.  A document is "notjson" (anything           *)
(* serde_json cannot read as an array, bytes that are no UTF-8 included)  *)
(* or an array of objects; an object is its members in order, a member    *)
(* [k, ty, v] a key, the JSON type of its value and the value's text.     *)
(***************************************************************************)
Str(k, v) == [k |-> k, ty |-> "str", v |-> v]
Num(k, v) == [k |-> k, ty |-> "num", v |-> v]

NotJson == [t |-> "notjson", items |-> <<>>]
Arr(items) == [t |-> "arr", items |-> items]

Members(obj, k) == {i \in 1..Len(obj) : obj[i].k = k}

\* A derived Deserialize for a struct of String fields: each field must
\* occur exactly once and hold a JSON string; other keys are skipped.
FieldOk(obj, k) ==
    /\ Cardinality(Members(obj, k)) = 1
    /\ \A i \in Members(obj, k) : obj[i].ty = "str"

Field(obj, k) == obj[CHOOSE i \in Members(obj, k) : TRUE].v

ChartFields == {"name", "version"}
InstalledChartFields ==
    {"name", "app_version", "revision", "updated", "status", "chart"}

Chart(obj) == [k \in ChartFields |-> Field(obj, k)]
InstalledChart(obj) == [k \in InstalledChartFields |-> Field(obj, k)]

\* serde_json::from_slice::<Vec<Chart>>(..).map_err(HelmError::Serde)
DecodeCharts(doc) ==
    IF /\ doc.t = "arr"
       /\ \A i \in 1..Len(doc.items) :
              \A k \in ChartFields : FieldOk(doc.items[i], k)
    THEN OkList([i \in 1..Len(doc.items) |-> Chart(doc.items[i])])
    ELSE Err("Serde")

\* DecodeInstalled for a record that rejects the keys it does not declare
DecodeInstalledStrict(doc) ==
    IF /\ doc.t = "arr"
       /\ \A i \in 1..Len(doc.items) :
              /\ \A k \in InstalledChartFields : FieldOk(doc.items[i], k)
              /\ \A m \in 1..Len(doc.items[i]) :
                     doc.items[i][m].k \in InstalledChartFields
    THEN OkList([i \in 1..Len(doc.items) |-> InstalledChart(doc.items[i])])
    ELSE Err("Serde")

\* serde_json::from_slice::<Vec<InstalledChart>>(..).map_err(HelmError::Serde)
DecodeInstalled(doc) ==
    IF /\ doc.t = "arr"
       /\ \A i \in 1..Len(doc.items) :
              \A k \in InstalledChartFields : FieldOk(doc.items[i], k)
    THEN OkList([i \in 1..Len(doc.items) |-> InstalledChart(doc.items[i])])
    ELSE Err("Serde")

(***************************************************************************)
(* The inputs the model draws from.                                        *)
(***************************************************************************)
Names == {"fluvio", "fluvio-sys"}
Versions == {"0.9.0", "0.9.1"}
Namespaces == {"default", "prod"}
Option(S) == {<<>>} \cup {<<x>> : x \in S}

ChartObj(n, v) == <<Str("name", n), Str("version", v)>>

ChartObjs ==
    {ChartObj("fluvio", "0.9.0"), ChartObj("fluvio", "0.9.1"),
     ChartObj("fluvio-sys", "0.9.0"),
     <<Str("name", "fluvio"), Str("version", "0.9.0"),
       Str("app_version", "0.9.0"), Str("description", "chart")>>,
     <<Str("name", "fluvio")>>,
     <<Str("name", "fluvio"), Num("version", "9")>>}

InstalledObj(n) ==
    <<Str("name", n), Str("revision", "50"),
      Str("updated", "2021-03-17 08:42:54.546347741 +0000 UTC"),
      Str("status", "deployed"), Str("chart", n \o "-1.2.32-rc2"),
      Str("app_version", "1.2.32-rc2")>>

\* The `helm list` output of tests::test_parse_get_installed_charts
SampleInstalled ==
    <<Str("name", "test_chart"), Str("namespace", "default")>>
        \o Tail(InstalledObj("test_chart"))

InstalledObjs ==
    {InstalledObj("fluvio"), InstalledObj("fluvio-sys"), SampleInstalled,
     <<Str("name", "fluvio"), Str("namespace", "default")>>
         \o Tail(InstalledObj("fluvio")),
     SubSeq(InstalledObj("fluvio"), 1, 4),
     <<Str("name", "fluvio"), Num("revision", "50")>>
         \o SubSeq(InstalledObj("fluvio"), 3, 6)}

Docs(objs) == {NotJson} \cup {Arr(a) : a \in SeqsUpTo(objs, MaxItems)}
FewDocs(objs) == {NotJson, Arr(<<>>)} \cup {Arr(<<o>>) : o \in objs}

\* What a read operation's subprocess may do: every document with a few
\* stderr texts, and every stderr text with a few documents.
Responses(objs) ==
    {[status |-> st, out |-> <<>>, json |-> d, stderr |-> e] :
        st \in Statuses, d \in Docs(objs), e \in FewStdErrs}
    \cup
    {[status |-> st, out |-> <<>>, json |-> d, stderr |-> e] :
        st \in Statuses, d \in FewDocs(objs), e \in StdErrs}

\* What a version probe's subprocess may do
ProbeResponses(outs) ==
    {[status |-> st, out |-> o, json |-> NotJson, stderr |-> <<>>] :
        st \in Statuses, o \in outs}

\* What a write operation's subprocess may do: any status, with stdout
\* that is or is not JSON and stderr that holds the marker or nothing
WriteResponses ==
    {[status |-> st, out |-> <<>>, json |-> d, stderr |-> e] :
        st \in Statuses, d \in {NotJson, Arr(<<>>)}, e \in {<<>>, Marker}}

\* check_helm_stderr taking any text on stderr for a failure
check_helm_stderr_strict(stderr) ==
    IF stderr # <<>>
    THEN IF ~ValidUtf8(stderr) THEN Err("Utf8Error")
         ELSE Err("FailedToConnect")
    ELSE Ok0

\* Check for errors in Helm's stderr output
check_helm_stderr(stderr) ==
    IF stderr # <<>>
    THEN IF ~ValidUtf8(stderr) THEN Err("Utf8Error")
         ELSE IF Contains(stderr, Marker) THEN Err("FailedToConnect")
         ELSE Ok0
    ELSE Ok0

\* ReadCharts with stdout decoded before stderr is looked at
ReadChartsDecodeFirst(resp) ==
    IF CommandResult(resp).kind = "Err" THEN CommandResult(resp)
    ELSE IF DecodeCharts(resp.json).kind = "Err" THEN DecodeCharts(resp.json)
    ELSE IF check_helm_stderr(resp.stderr).kind = "Err"
         THEN check_helm_stderr(resp.stderr)
    ELSE DecodeCharts(resp.json)

\* The tail shared by every read operation: `command.result()?`, then
\* `check_helm_stderr(output.stderr)?`, then the decoding of stdout.
ReadCharts(resp) ==
    IF CommandResult(resp).kind = "Err" THEN CommandResult(resp)
    ELSE IF check_helm_stderr(resp.stderr).kind = "Err"
         THEN check_helm_stderr(resp.stderr)
    ELSE DecodeCharts(resp.json)

ReadInstalled(resp) ==
    IF CommandResult(resp).kind = "Err" THEN CommandResult(resp)
    ELSE IF check_helm_stderr(resp.stderr).kind = "Err"
         THEN check_helm_stderr(resp.stderr)
    ELSE DecodeInstalled(resp.json)

(***************************************************************************)
(* InstallArg and its renderings.  An InstallArg is                       *)
(*   [name, chart, version, namespace, opts, values, develop]             *)
(* with opts a sequence of <<key, value>> and version, namespace options. *)
(* In lib.rs `values` is a list of paths; in install_arg.rs it is an      *)
(* option of a list of paths.                                              *)
(***************************************************************************)
ChartRefs == {"fluvio/fluvio-app"}
OptPairs == {<<"image.tag", "1">>, <<"image.tag", "2">>, <<"replicas", "1">>}
ValuePaths == {"a.yaml", "b.yaml"}

InstallArgs(v) ==
    [name : Names, chart : ChartRefs,
     version : Option({"0.9.0"}), namespace : Option({"prod"}),
     opts : SeqsUpTo(OptPairs, MaxOpts),
     values : IF v = "lib" THEN SeqsUpTo(ValuePaths, MaxValues)
              ELSE Option(SeqsUpTo(ValuePaths, MaxValues)),
     develop : BOOLEAN]

RECURSIVE Flatten(_)
Flatten(ss) == IF ss = <<>> THEN <<>> ELSE Head(ss) \o Flatten(Tail(ss))

\* if let Some(namespace) = &self.namespace { args(&["--namespace", namespace]) }
NamespaceFlag(ns) == IF ns # <<>> THEN <<"--namespace", ns[1]>> ELSE <<>>

\* if self.develop { arg("--devel") }
DevelFlag(develop) == IF develop THEN <<"--devel">> ELSE <<>>

\* if let Some(version) = &self.version { args(&["--version", version]) }
VersionFlag(version) ==
    IF version # <<>> THEN <<"--version", version[1]>> ELSE <<>>

\* for value_path in .. { arg("--values").arg(value_path) }
ValuesFlags(paths) ==
    Flatten([i \in 1..Len(paths) |-> <<"--values", paths[i]>>])

\* The overrides with an earlier pair dropped when a later one has its key
LastWins(opts) ==
    LET keep == {i \in 1..Len(opts) :
                    \A j \in (i + 1)..Len(opts) : opts[j][1] # opts[i][1]}
        nth(n) == CHOOSE i \in keep : Cardinality({j \in keep : j <= i}) = n
    IN  [n \in 1..Cardinality(keep) |-> opts[nth(n)]]

\* --set with duplicate keys merged
SetFlagsMerged(opts) ==
    Flatten([i \in 1..Len(LastWins(opts)) |->
                <<"--set", LastWins(opts)[i][1] \o "=" \o LastWins(opts)[i][2]>>])

\* for (key, val) in &self.opts { arg("--set").arg(format!("{}={}", key, val)) }
SetFlagsPlain(opts) ==
    Flatten([i \in 1..Len(opts) |->
                <<"--set", opts[i][1] \o "=" \o opts[i][2]>>])

\* for (key, val) in &self.opts { arg("--set").arg(format!(r#"{}="{}""#, key, val)) }
SetFlagsQuoted(opts) ==
    Flatten([i \in 1..Len(opts) |->
                <<"--set", opts[i][1] \o "=\"" \o opts[i][2] \o "\"">>])

\* if let Some(values) = &self.values { for value_path in values ... }
SomeValues(values) == IF values # <<>> THEN values[1] ELSE <<>>

\* apply_args with --version rendered before --devel
apply_args_lib_swapped(arg) ==
    NamespaceFlag(arg.namespace) \o VersionFlag(arg.version)
        \o DevelFlag(arg.develop) \o ValuesFlags(arg.values)
        \o SetFlagsPlain(arg.opts)

\* lib.rs InstallArg::apply_args
apply_args_lib(arg) ==
    NamespaceFlag(arg.namespace) \o DevelFlag(arg.develop)
        \o VersionFlag(arg.version) \o ValuesFlags(arg.values)
        \o SetFlagsPlain(arg.opts)

\* lib.rs InstallArg::install
install_lib(arg) == <<"install", arg.name, arg.chart>> \o apply_args_lib(arg)

\* lib.rs InstallArg::upgrade
upgrade_lib(arg) ==
    <<"upgrade", "--install", arg.name, arg.chart>> \o apply_args_lib(arg)

\* lib.rs From<InstallArg> for Command
from_install_arg_lib(arg) ==
    <<"install", arg.name, arg.chart>>
        \o NamespaceFlag(arg.namespace) \o DevelFlag(arg.develop)
        \o VersionFlag(arg.version) \o ValuesFlags(arg.values)
        \o SetFlagsPlain(arg.opts)

\* install_arg.rs InstallArg::apply_args
apply_args_hc(arg) ==
    NamespaceFlag(arg.namespace) \o DevelFlag(arg.develop)
        \o VersionFlag(arg.version) \o ValuesFlags(SomeValues(arg.values))
        \o SetFlagsQuoted(arg.opts)

\* install_arg.rs InstallArg::install
install_hc(arg) == <<"install", arg.name, arg.chart>> \o apply_args_hc(arg)

\* install_arg.rs InstallArg::upgrade
upgrade_hc(arg) ==
    <<"upgrade", "--install", arg.name, arg.chart>> \o <<"--output", "json">>
        \o apply_args_hc(arg)

\* install_arg.rs Into<Command> for InstallArg
into_command_hc(arg) ==
    <<"install", arg.name, arg.chart>> \o <<"--output", "json">>
        \o NamespaceFlag(arg.namespace) \o DevelFlag(arg.develop)
        \o VersionFlag(arg.version) \o ValuesFlags(SomeValues(arg.values))
        \o SetFlagsPlain(arg.opts)

\* The vector each generation renders
install_args(v, arg) ==
    IF v = "lib" THEN install_lib(arg) ELSE install_hc(arg)

upgrade_args(v, arg) ==
    IF v = "lib" THEN upgrade_lib(arg) ELSE upgrade_hc(arg)

into_command_args(v, arg) ==
    IF v = "lib" THEN from_install_arg_lib(arg) ELSE into_command_hc(arg)

(***************************************************************************)
(* UninstallArg: [release, namespace, ignore_not_found, dry_run, timeout] *)
(***************************************************************************)
Timeouts == {"5m0s"}

UninstallArgs ==
    [release : Names, namespace : Option({"prod"}),
     ignore_not_found : BOOLEAN, dry_run : BOOLEAN,
     timeout : Option(Timeouts)]

\* From<UninstallArg> for Command (the same text in lib.rs and
\* uninstall_arg.rs)
from_uninstall_arg(arg) ==
    <<"uninstall", arg.release>>
        \o NamespaceFlag(arg.namespace)
        \o (IF arg.dry_run THEN <<"--dry-run">> ELSE <<>>)
        \o (IF arg.timeout # <<>> THEN <<"--timeout", arg.timeout[1]>> ELSE <<>>)

(***************************************************************************)
(* The argument vectors of the read operations.                            *)
(***************************************************************************)
search_repo_args(chart, version) ==
    <<"search", "repo", chart>> \o <<"--version", version>>
        \o <<"--output", "json">>

versions_args(chart) ==
    <<"search", "repo">> \o <<"--versions", chart>>
        \o <<"--output", "json", "--devel">>

\* lib.rs get_installed_chart_by_name: None searches all namespaces
get_installed_args_lib(name, namespace) ==
    <<"list", "--filter", "^" \o name \o "$", "--output", "json">>
        \o (IF namespace # <<>> THEN <<"--namespace", namespace[1]>>
            ELSE <<"-A">>)

\* helm_client.rs get_installed_chart_by_name: None adds nothing
get_installed_args_hc(name, namespace) ==
    <<"list", "--filter", "^" \o name \o "$">> \o <<"--output", "json">>
        \o (IF namespace # <<>> THEN <<"--namespace", namespace[1]>>
            ELSE <<>>)

get_installed_args(v, name, namespace) ==
    IF v = "lib" THEN get_installed_args_lib(name, namespace)
    ELSE get_installed_args_hc(name, namespace)

(***************************************************************************)
(* GetInstalledArg (get_installed_arg.rs): nine Option<bool> switches,    *)
(* four Option<String> and two Option<u32>.                                *)
(***************************************************************************)
\* if let Some(x) = &self.x { if *x == true { args(&[token]) } }
Switch(opt, token) == IF opt = <<TRUE>> THEN <<token>> ELSE <<>>

\* if let Some(x) = &self.x { args(&[token, x.as_str()]) }
Valued(opt, token) == IF opt # <<>> THEN <<token, opt[1]>> ELSE <<>>

\* if let Some(n) = &self.n { args(&[token, n.to_string().as_str()]) }
Counted(opt, token) == IF opt # <<>> THEN <<token, ToString(opt[1])>> ELSE <<>>

get_installed_arg_into_command(a) ==
    <<"list">> \o <<"--output", "json">>
        \o Switch(a.all, "--all")
        \o Switch(a.all_namespaces, "--all-namespaces")
        \o Switch(a.date, "--date")
        \o Switch(a.pending, "--pending")
        \o Switch(a.reverse, "--reverse")
        \o Switch(a.short, "--short")
        \o Switch(a.superseded, "--superseded")
        \o Switch(a.uninstalled, "--uninstalled")
        \o Switch(a.uninstalling, "--uninstalling")
        \o Valued(a.filter, "--filter")
        \o Valued(a.selector, "--selector")
        \o Valued(a.time_format, "--time-format")
        \o Valued(a.namespace, "--namespace")
        \o Counted(a.max, "--max")
        \o Counted(a.offset, "--offset")

\* GetInstalledArg::default()
DefaultGetInstalledArg ==
    [all |-> <<>>, all_namespaces |-> <<>>, date |-> <<>>, pending |-> <<>>,
     reverse |-> <<>>, short |-> <<>>, superseded |-> <<>>,
     uninstalled |-> <<>>, uninstalling |-> <<>>, filter |-> <<>>,
     selector |-> <<>>, time_format |-> <<>>, namespace |-> <<>>,
     max |-> <<>>, offset |-> <<>>]

GetInstalledArgs ==
    {DefaultGetInstalledArg,
     [DefaultGetInstalledArg EXCEPT !.all = <<FALSE>>,
                                    !.all_namespaces = <<TRUE>>],
     [DefaultGetInstalledArg EXCEPT !.filter = <<"^fluvio$">>,
                                    !.namespace = <<"prod">>,
                                    !.max = <<5>>, !.offset = <<0>>],
     [all |-> <<TRUE>>, all_namespaces |-> <<TRUE>>, date |-> <<TRUE>>,
      pending |-> <<TRUE>>, reverse |-> <<TRUE>>, short |-> <<TRUE>>,
      superseded |-> <<TRUE>>, uninstalled |-> <<TRUE>>,
      uninstalling |-> <<TRUE>>, filter |-> <<"fluvio">>,
      selector |-> <<"app=fluvio">>, time_format |-> <<"2006-01-02">>,
      namespace |-> <<"default">>, max |-> <<256>>, offset |-> <<1>>]}

(***************************************************************************)
(* The arguments of the other write operations and their renderings.      *)
(***************************************************************************)
\* lib.rs HelmClient::repo_add: the argument vector
repo_add_args_lib(chart, location) == <<"repo", "add", chart, location>>

\* helm_client.rs HelmClient::repo_add: the argument vector
repo_add_args_hc(chart, location) ==
    <<"repo", "add", chart, location>> \o <<"--output", "json">>

\* lib.rs HelmClient::repo_update: the argument vector
repo_update_args_lib == <<"repo", "update">>

\* helm_client.rs HelmClient::repo_update: the argument vector
repo_update_args_hc == <<"repo", "update">> \o <<"--output", "json">>

\* RepoAddArg: chart and location, three optional switches and five
\* optional valued flags
RepoAddArgs ==
    [chart : Names, location : {"https://charts.fluvio.io"},
     force_update : Option(BOOLEAN),
     insecure_skip_tls_verify : Option({TRUE}),
     no_update : Option({TRUE}),
     ca_file : Option({"ca.pem"}),
     cert_file : {<<>>}, key_file : {<<>>},
     password : {<<>>}, username : Option({"admin"})]
    \cup
    {[chart |-> "fluvio", location |-> "https://charts.fluvio.io",
      force_update |-> <<TRUE>>, insecure_skip_tls_verify |-> <<FALSE>>,
      no_update |-> <<FALSE>>, ca_file |-> <<"ca.pem">>,
      cert_file |-> <<"cert.pem">>, key_file |-> <<"key.pem">>,
      password |-> <<"secret">>, username |-> <<"admin">>]}

\* Into<Command> for RepoAddArg
repo_add_arg_into_command(a) ==
    <<"repo", "add", a.chart, a.location>>
    \o <<"--output", "json">>
    \o Switch(a.force_update, "--force-update")
    \o Switch(a.insecure_skip_tls_verify, "--insecure-skip-tls-verify")
    \o Switch(a.no_update, "--no-update")
    \o Valued(a.ca_file, "--ca-file")
    \o Valued(a.cert_file, "--cert-file")
    \o Valued(a.key_file, "--key-file")
    \o Valued(a.password, "--password")
    \o Valued(a.username, "--username")

RegistryLoginArgs ==
    [host : {"registry.local"}, username : {"admin"}, password : {"secret"}]

\* Into<Command> for RegistryLoginArg
registry_login_arg_into_command(a) ==
    <<"registry">> \o <<"login">> \o <<a.host>>
    \o <<"--username", a.username>> \o <<"--password", a.password>>

ChartPullArgs == [chart : Names, version : Versions]

\* Into<Command> for ChartPullArg
chart_pull_arg_into_command(a) ==
    <<"chart", "pull">> \o <<a.chart \o ":" \o a.version>>

ChartExportArgs == [chart : Names, version : Versions, destination : {"out"}]

\* Into<Command> for ChartExportArg
chart_export_arg_into_command(a) ==
    <<"chart", "export">> \o <<a.chart \o ":" \o a.version>>
    \o <<"--destination", a.destination>>

(***************************************************************************)
(* The version text.                                                       *)
(***************************************************************************)
\* The UTF-8 forms of the characters char::is_whitespace accepts
WhiteChars ==
    {<<b>> : b \in {9, 10, 11, 12, 13, 32}}
    \cup {<<194, 133>>, <<194, 160>>, <<225, 154, 128>>}
    \cup {<<226, 128, b>> : b \in (128..138) \cup {168, 169, 175}}
    \cup {<<226, 129, 159>>, <<227, 128, 128>>}

StartsWith(t, w) == Len(w) <= Len(t) /\ SubSeq(t, 1, Len(w)) = w
EndsWith(t, w) ==
    Len(w) <= Len(t) /\ SubSeq(t, Len(t) - Len(w) + 1, Len(t)) = w

\* str::trim_start_matches('v')
RECURSIVE trim_start_matches_v(_)
trim_start_matches_v(t) ==
    IF StartsWith(t, <<118>>) THEN trim_start_matches_v(Tail(t)) ELSE t

RECURSIVE trim_start(_)
trim_start(t) ==
    IF \E w \in WhiteChars : StartsWith(t, w)
    THEN LET w == CHOOSE w \in WhiteChars : StartsWith(t, w)
         IN  trim_start(SubSeq(t, Len(w) + 1, Len(t)))
    ELSE t

RECURSIVE trim_end(_)
trim_end(t) ==
    IF \E w \in WhiteChars : EndsWith(t, w)
    THEN LET w == CHOOSE w \in WhiteChars : EndsWith(t, w)
         IN  trim_end(SubSeq(t, 1, Len(t) - Len(w)))
    ELSE t

\* str::trim
trim(t) == trim_end(trim_start(t))

\* lib.rs: version_text.trim_start_matches('v').trim().to_string()
sanitize_helm_version_string(t) == OkText(trim(trim_start_matches_v(t)))

\* helm_client.rs: version_text[1..].trim().to_string(); the slice panics
\* on an empty text and when byte 1 is inside the first character.
slice_from_1_trim(t) ==
    IF t = <<>> \/ t[1] >= 128
    THEN [Ok0 EXCEPT !.kind = "Panic", !.err = "slice"]
    ELSE OkText(trim(Tail(t)))

\* 'v', ' ', '\n', '3' and the byte 0xFF
VersionBytes == {118, 32, 10, 51, 255}

\* "v3.15.4+gfa9efb0"
SampleV == <<118, 51, 46, 49, 53, 46, 52, 43, 103, 102, 97, 57, 101, 102, 98, 48>>

VersionOutputs ==
    SeqsUpTo(VersionBytes, MaxVerLen)
    \cup {SampleV, Tail(SampleV), SampleV \o <<10>>, Tail(SampleV) \o <<10>>,
          <<32>> \o SampleV, <<195, 169, 51>>, <<118, 51, 194, 160>>}

(***************************************************************************)
(* HelmClient.  Each operation is an operator from its arguments and the  *)
(* responses of the subprocesses it may start to                          *)
(*   [runs |-> the subprocesses it did start, result |-> what it returns] *)
(***************************************************************************)
Call(rs, res) == [runs |-> rs, result |-> res]

\* Unit with the stderr check of the read operations added
UnitChecksStderr(resp) ==
    IF CommandResult(resp).kind = "Err" THEN CommandResult(resp)
    ELSE check_helm_stderr(resp.stderr)

\* `command.result()?; Ok(())`
Unit(resp) ==
    IF CommandResult(resp).kind = "Err" THEN CommandResult(resp) ELSE Ok0

\* new without the check for "version" in the output
new_unchecked(resp) ==
    Call(<<Run(<<"version">>, resp)>>,
         IF CommandResult(resp).kind = "Err" THEN CommandResult(resp)
         ELSE IF ~ValidUtf8(resp.out) THEN Err("Utf8Error")
         ELSE Ok0)

\* HelmClient::new
new(resp) ==
    Call(<<Run(<<"version">>, resp)>>,
         IF CommandResult(resp).kind = "Err" THEN CommandResult(resp)
         ELSE IF ~ValidUtf8(resp.out) THEN Err("Utf8Error")
         ELSE IF ~Contains(resp.out, VersionWord)
              THEN ErrText("HelmVersionNotFound", resp.out)
         ELSE Ok0)

\* HelmClient::install
install(v, arg, resp) == Call(<<Run(install_args(v, arg), resp)>>, Unit(resp))

\* HelmClient::upgrade
upgrade(v, arg, resp) == Call(<<Run(upgrade_args(v, arg), resp)>>, Unit(resp))

\* HelmClient::search_repo
search_repo(chart, version, resp) ==
    Call(<<Run(search_repo_args(chart, version), resp)>>, ReadCharts(resp))

\* HelmClient::versions
versions(chart, resp) ==
    Call(<<Run(versions_args(chart), resp)>>, ReadCharts(resp))

\* Matching on the name alone
MatchingNameOnly(list, name, version) ==
    {i \in 1..Len(list) : list[i].name = name}

\* The charts of a decoded list with both fields equal to the query
Matching(list, name, version) ==
    {i \in 1..Len(list) : list[i].name = name /\ list[i].version = version}

\* HelmClient::chart_version_exists
chart_version_exists(name, version, resp) ==
    LET found == search_repo(name, version, resp)
    IN  IF found.result.kind = "Err" THEN found
        ELSE Call(found.runs,
                  OkFlag(Cardinality(Matching(found.result.list,
                                              name, version)) > 0))

\* HelmClient::get_installed_chart_by_name
get_installed_chart_by_name(v, name, namespace, resp) ==
    Call(<<Run(get_installed_args(v, name, namespace), resp)>>,
         ReadInstalled(resp))

\* HelmClient::list_installed (helm_client.rs only)
list_installed(a, resp) ==
    Call(<<Run(get_installed_arg_into_command(a), resp)>>, ReadInstalled(resp))

\* uninstall without the early return on an empty lookup
uninstall_always_deletes(v, arg, lookup, del) ==
    LET found == get_installed_chart_by_name(v, arg.release, arg.namespace,
                                             lookup)
        delete == Run(from_uninstall_arg(arg), del)
    IN  IF arg.ignore_not_found
        THEN IF found.result.kind = "Err" THEN found
             ELSE Call(found.runs \o <<delete>>, Unit(del))
        ELSE Call(<<delete>>, Unit(del))

\* uninstall carrying on to the delete when the lookup fails
uninstall_ignores_lookup_error(v, arg, lookup, del) ==
    LET found == get_installed_chart_by_name(v, arg.release, arg.namespace,
                                             lookup)
        delete == Run(from_uninstall_arg(arg), del)
    IN  IF arg.ignore_not_found
        THEN IF found.result.kind = "Ok" /\ found.result.list = <<>>
             THEN Call(found.runs, Ok0)
             ELSE Call(found.runs \o <<delete>>, Unit(del))
        ELSE Call(<<delete>>, Unit(del))

\* uninstall taking a failed delete for "nothing to delete"
uninstall_forgives_delete(v, arg, lookup, del) ==
    LET found == get_installed_chart_by_name(v, arg.release, arg.namespace,
                                             lookup)
        delete == Run(from_uninstall_arg(arg), del)
    IN  IF arg.ignore_not_found
        THEN IF found.result.kind = "Err" THEN found
             ELSE IF found.result.list = <<>> THEN Call(found.runs, Ok0)
             ELSE Call(found.runs \o <<delete>>, Ok0)
        ELSE Call(<<delete>>, Unit(del))

\* HelmClient::uninstall
uninstall(v, arg, lookup, del) ==
    LET found == get_installed_chart_by_name(v, arg.release, arg.namespace,
                                             lookup)
        delete == Run(from_uninstall_arg(arg), del)
    IN  IF arg.ignore_not_found
        THEN IF found.result.kind = "Err" THEN found
             ELSE IF found.result.list = <<>> THEN Call(found.runs, Ok0)
             ELSE Call(found.runs \o <<delete>>, Unit(del))
        ELSE Call(<<delete>>, Unit(del))

\* lib.rs HelmClient::get_helm_version
get_helm_version_lib(resp) ==
    Call(<<Run(<<"version", "--short">>, resp)>>,
         IF CommandOutput(resp).kind = "Err" THEN CommandOutput(resp)
         ELSE IF ~ValidUtf8(resp.out) THEN Err("Utf8Error")
         ELSE sanitize_helm_version_string(resp.out))

\* helm_client.rs HelmClient::get_helm_version
get_helm_version_hc(resp) ==
    Call(<<Run(<<"version", "--short">> \o <<"--output", "json">>, resp)>>,
         IF CommandOutput(resp).kind = "Err" THEN CommandOutput(resp)
         ELSE IF ~ValidUtf8(resp.out) THEN Err("Utf8Error")
         ELSE slice_from_1_trim(resp.out))

get_helm_version(v, resp) ==
    IF v = "lib" THEN get_helm_version_lib(resp) ELSE get_helm_version_hc(resp)

\* HelmClient::repo_add
repo_add(v, chart, location, resp) ==
    Call(<<Run(IF v = "lib" THEN repo_add_args_lib(chart, location)
               ELSE repo_add_args_hc(chart, location), resp)>>,
         Unit(resp))

\* HelmClient::repo_update
repo_update(v, resp) ==
    Call(<<Run(IF v = "lib" THEN repo_update_args_lib
               ELSE repo_update_args_hc, resp)>>,
         Unit(resp))

\* HelmClient::repo_add_with_optionals (helm_client.rs only)
repo_add_with_optionals(a, resp) ==
    Call(<<Run(repo_add_arg_into_command(a), resp)>>, Unit(resp))

\* HelmClient::registry (helm_client.rs only)
registry(a, resp) ==
    Call(<<Run(registry_login_arg_into_command(a), resp)>>, Unit(resp))

\* HelmClient::chart_pull (helm_client.rs only)
chart_pull(a, resp) ==
    Call(<<Run(chart_pull_arg_into_command(a), resp)>>, Unit(resp))

\* HelmClient::export (helm_client.rs only)
export(a, resp) ==
    Call(<<Run(chart_export_arg_into_command(a), resp)>>, Unit(resp))

(***************************************************************************)
(* The state machine: a caller that constructs the client and then calls  *)
(* its operations one after the other, each call drawing the responses of *)
(* its subprocesses; the caller drops a result before the next call.      *)
(***************************************************************************)
\* The lookup responses an uninstall is tried with
LookupResponses ==
    {[status |-> st, out |-> <<>>, json |-> d, stderr |-> e] :
        st \in Statuses, d \in FewDocs(InstalledObjs), e \in FewStdErrs}

Idle == [name |-> "idle", args |-> <<>>]

Init ==
    /\ variant \in Variants
    /\ client = "none"
    /\ op = Idle
    /\ runs = <<>>
    /\ result = Ok0
    /\ failed = FALSE
    /\ cluster = {} /\ pc = <<>> /\ calls = <<>>
    /\ built = <<>> /\ chain = <<>>

\* Returns for a client that an error leaves unusable
ReturnsPoisoned(name, args, call) ==
    /\ op' = [name |-> name, args |-> args]
    /\ runs' = call.runs
    /\ result' = IF failed THEN Err("CommandError") ELSE call.result
    /\ failed' = (failed \/ (client = "ready" /\ call.result.kind = "Err"))
    /\ UNCHANGED <<cluster, pc, calls, built, chain>>

\* A call returns to its caller; `failed` records that a call on the
\* constructed client has returned an error
Returns(name, args, call) ==
    /\ op' = [name |-> name, args |-> args]
    /\ runs' = call.runs
    /\ result' = call.result
    /\ failed' = (failed \/ (client = "ready" /\ call.result.kind = "Err"))
    /\ UNCHANGED <<cluster, pc, calls, built, chain>>

New ==
    /\ op = Idle
    /\ client = "none"
    /\ \E resp \in ProbeResponses(Around(VersionWord)) :
          /\ Returns("new", <<>>, new(resp))
          /\ client' = IF new(resp).result.kind = "Ok" THEN "ready" ELSE "none"
    /\ UNCHANGED variant

Install ==
    /\ op = Idle
    /\ client = "ready"
    /\ \E arg \in InstallArgs(variant), resp \in WriteResponses :
          Returns("install", arg, install(variant, arg, resp))
    /\ UNCHANGED <<variant, client>>

Upgrade ==
    /\ op = Idle
    /\ client = "ready"
    /\ \E arg \in InstallArgs(variant), resp \in WriteResponses :
          Returns("upgrade", arg, upgrade(variant, arg, resp))
    /\ UNCHANGED <<variant, client>>

\* The conversion of an InstallArg into a Command; nothing is run
IntoCommand ==
    /\ op = Idle
    /\ \E arg \in InstallArgs(variant) :
          Returns("into_command", arg,
                  Call(<<>>, OkList(into_command_args(variant, arg))))
    /\ UNCHANGED <<variant, client>>

Uninstall ==
    /\ op = Idle
    /\ client = "ready"
    /\ \E arg \in UninstallArgs, lookup \in LookupResponses,
          del \in WriteResponses :
          Returns("uninstall", arg, uninstall(variant, arg, lookup, del))
    /\ UNCHANGED <<variant, client>>

SearchRepo ==
    /\ op = Idle
    /\ client = "ready"
    /\ \E chart \in Names, version \in Versions,
          resp \in Responses(ChartObjs) :
          Returns("search_repo", [chart |-> chart, version |-> version],
                  search_repo(chart, version, resp))
    /\ UNCHANGED <<variant, client>>

Versions_ ==
    /\ op = Idle
    /\ client = "ready"
    /\ \E chart \in Names, resp \in Responses(ChartObjs) :
          Returns("versions", [chart |-> chart], versions(chart, resp))
    /\ UNCHANGED <<variant, client>>

ChartVersionExists ==
    /\ op = Idle
    /\ client = "ready"
    /\ \E name \in Names, version \in Versions,
          resp \in Responses(ChartObjs) :
          Returns("chart_version_exists",
                  [name |-> name, version |-> version],
                  chart_version_exists(name, version, resp))
    /\ UNCHANGED <<variant, client>>

GetInstalledChartByName ==
    /\ op = Idle
    /\ client = "ready"
    /\ \E name \in Names, namespace \in Option(Namespaces),
          resp \in Responses(InstalledObjs) :
          Returns("get_installed_chart_by_name",
                  [name |-> name, namespace |-> namespace],
                  get_installed_chart_by_name(variant, name, namespace, resp))
    /\ UNCHANGED <<variant, client>>

ListInstalled ==
    /\ op = Idle
    /\ client = "ready"
    /\ variant = "helm_client"
    /\ \E a \in GetInstalledArgs, resp \in Responses(InstalledObjs) :
          Returns("list_installed", a, list_installed(a, resp))
    /\ UNCHANGED <<variant, client>>

GetHelmVersion ==
    /\ op = Idle
    /\ client = "ready"
    /\ \E resp \in ProbeResponses(VersionOutputs) :
          Returns("get_helm_version", <<>>, get_helm_version(variant, resp))
    /\ UNCHANGED <<variant, client>>

RepoAdd ==
    /\ op = Idle
    /\ client = "ready"
    /\ \E chart \in Names, location \in {"https://charts.fluvio.io"},
          resp \in WriteResponses :
          Returns("repo_add", [chart |-> chart, location |-> location],
                  repo_add(variant, chart, location, resp))
    /\ UNCHANGED <<variant, client>>

RepoUpdate ==
    /\ op = Idle
    /\ client = "ready"
    /\ \E resp \in WriteResponses :
          Returns("repo_update", <<>>, repo_update(variant, resp))
    /\ UNCHANGED <<variant, client>>

RepoAddWithOptionals ==
    /\ op = Idle
    /\ client = "ready"
    /\ variant = "helm_client"
    /\ \E a \in RepoAddArgs, resp \in WriteResponses :
          Returns("repo_add_with_optionals", a,
                  repo_add_with_optionals(a, resp))
    /\ UNCHANGED <<variant, client>>

Registry ==
    /\ op = Idle
    /\ client = "ready"
    /\ variant = "helm_client"
    /\ \E a \in RegistryLoginArgs, resp \in WriteResponses :
          Returns("registry", a, registry(a, resp))
    /\ UNCHANGED <<variant, client>>

ChartPull ==
    /\ op = Idle
    /\ client = "ready"
    /\ variant = "helm_client"
    /\ \E a \in ChartPullArgs, resp \in WriteResponses :
          Returns("chart_pull", a, chart_pull(a, resp))
    /\ UNCHANGED <<variant, client>>

Export ==
    /\ op = Idle
    /\ client = "ready"
    /\ variant = "helm_client"
    /\ \E a \in ChartExportArgs, resp \in WriteResponses :
          Returns("export", a, export(a, resp))
    /\ UNCHANGED <<variant, client>>

\* The caller drops the result (and, for a failed `new`, has no client)
Drop ==
    /\ op # Idle
    /\ op' = Idle
    /\ runs' = <<>>
    /\ result' = Ok0
    /\ UNCHANGED <<variant, client, failed, cluster, pc, calls, built, chain>>

Next ==
    \/ New
    \/ Install
    \/ Upgrade
    \/ IntoCommand
    \/ Uninstall
    \/ SearchRepo
    \/ Versions_
    \/ ChartVersionExists
    \/ GetInstalledChartByName
    \/ ListInstalled
    \/ GetHelmVersion
    \/ RepoAdd
    \/ RepoUpdate
    \/ RepoAddWithOptionals
    \/ Registry
    \/ ChartPull
    \/ Export
    \/ Drop

Spec == Init /\ [][Next]_vars

(***************************************************************************)
(* Properties.                                                             *)
(***************************************************************************)
ReadOps ==
    {"search_repo", "versions", "get_installed_chart_by_name", "list_installed"}

\* The response of the first subprocess of the call that just returned
Resp1 == runs[1].resp

\* What the decoding of the call's stdout alone gives
Decoded ==
    IF op.name \in {"search_repo", "versions"} THEN DecodeCharts(Resp1.json)
    ELSE DecodeInstalled(Resp1.json)

\* The runs of the call that are `helm uninstall`
DeleteRuns == {i \in 1..Len(runs) : runs[i].argv[1] = "uninstall"}

\* What the lookup of an uninstall with ignore_not_found returned
Lookup ==
    get_installed_chart_by_name(variant, op.args.release, op.args.namespace,
                                Resp1).result

\* C1: an uninstall with ignore_not_found set whose lookup returns an empty
\* list returns Ok(()) and starts no `helm uninstall` subprocess.
C1_SkipsDeleteOnEmptyLookup ==
    (/\ op.name = "uninstall"
     /\ op.args.ignore_not_found
     /\ Lookup.kind = "Ok"
     /\ Lookup.list = <<>>)
    => (result = Ok0 /\ DeleteRuns = {})

C1_Witness ==
    /\ op.name = "uninstall"
    /\ op.args.ignore_not_found
    /\ Lookup.kind = "Ok"
    /\ Lookup.list = <<>>
    /\ Len(runs) = 1
    /\ runs[1].argv[1] = "list"
    /\ result.kind = "Ok"

\* C2 as stated: a read operation whose subprocess exits successfully with
\* the marker's bytes anywhere in stderr returns FailedToConnect, whatever
\* stdout holds.
C2_Original ==
    (/\ op.name \in ReadOps
     /\ Resp1.status = "exit0"
     /\ Contains(Resp1.stderr, Marker))
    => result = Err("FailedToConnect")

\* C2 amended: a read operation whose subprocess exits successfully with a
\* stderr that is valid UTF-8 and contains the marker returns
\* FailedToConnect whatever stdout holds (a document that decodes or one
\* that does not); a non-empty stderr that is not valid UTF-8 returns
\* Utf8Error, the marker's bytes in it or not.
C2_MarkerBeatsStdout ==
    (/\ op.name \in ReadOps
     /\ Resp1.status = "exit0"
     /\ Resp1.stderr # <<>>)
    => /\ (ValidUtf8(Resp1.stderr) /\ Contains(Resp1.stderr, Marker))
              => result = Err("FailedToConnect")
       /\ ~ValidUtf8(Resp1.stderr) => result = Err("Utf8Error")

C2_Witness ==
    /\ op.name \in ReadOps
    /\ Resp1.status = "exit0"
    /\ ValidUtf8(Resp1.stderr)
    /\ Contains(Resp1.stderr, Marker)
    /\ Decoded.kind = "Ok"
    /\ Decoded.list # <<>>
    /\ result = Err("FailedToConnect")

\* C3 as stated: a read operation whose subprocess exited, with a success
\* code or with a non-zero code, and wrote a stderr text containing the
\* marker returns FailedToConnect.
C3_MarkerRegardlessOfExit ==
    (/\ op.name \in ReadOps
     /\ Resp1.status \in {"exit0", "exit_nonzero"}
     /\ ValidUtf8(Resp1.stderr)
     /\ Contains(Resp1.stderr, Marker))
    => result = Err("FailedToConnect")

\* C4 as stated: a read operation whose subprocess exits successfully with
\* a non-empty stderr, any bytes, that does not contain the marker returns
\* what the decoding of its stdout gives.
C4_Original ==
    (/\ op.name \in ReadOps
     /\ Resp1.status = "exit0"
     /\ Resp1.stderr # <<>>
     /\ ~Contains(Resp1.stderr, Marker))
    => result = Decoded

\* C4 amended: a read operation whose subprocess exits successfully with a
\* non-empty stderr that is valid UTF-8 and does not contain the marker
\* returns what the decoding of its stdout gives (the list, or the Serde
\* error); a stderr that is not valid UTF-8 is not ignored: the operation
\* returns Utf8Error.
C4_BenignStderrIgnored ==
    (/\ op.name \in ReadOps
     /\ Resp1.status = "exit0"
     /\ Resp1.stderr # <<>>
     /\ ~Contains(Resp1.stderr, Marker))
    => IF ValidUtf8(Resp1.stderr) THEN result = Decoded
       ELSE result = Err("Utf8Error")

C4_Witness ==
    /\ op.name \in ReadOps
    /\ Resp1.status = "exit0"
    /\ Resp1.stderr # <<>>
    /\ ValidUtf8(Resp1.stderr)
    /\ ~Contains(Resp1.stderr, Marker)
    /\ result.kind = "Ok"
    /\ Len(result.list) = 2

\* What the search_repo call inside chart_version_exists returned
Searched == search_repo(op.args.name, op.args.version, Resp1).result

\* C5: chart_version_exists(name, version) returns Ok(true) exactly when
\* the list search_repo(name, version) decoded holds a chart with that name
\* and that version, Ok(false) for every other list; it starts the one
\* search_repo subprocess and returns a search_repo error as it is.
C5_ExistsIffBothMatch ==
    op.name = "chart_version_exists"
    => /\ Len(runs) = 1
       /\ runs[1].argv = search_repo_args(op.args.name, op.args.version)
       /\ Searched.kind = "Err" => result = Searched
       /\ Searched.kind = "Ok"
              => /\ result.kind = "Ok"
                 /\ result.flag <=>
                        \E i \in 1..Len(Searched.list) :
                            /\ Searched.list[i].name = op.args.name
                            /\ Searched.list[i].version = op.args.version

\* a list of two charts, one with only the name equal, one with both
C5_Witness ==
    /\ op.name = "chart_version_exists"
    /\ Searched.kind = "Ok"
    /\ Len(Searched.list) = 2
    /\ Searched.list[1].name = op.args.name
    /\ Searched.list[1].version # op.args.version
    /\ result.flag

\* t is made of whitespace characters only
RECURSIVE AllWhite(_)
AllWhite(t) ==
    \/ t = <<>>
    \/ \E w \in WhiteChars :
          StartsWith(t, w) /\ AllWhite(SubSeq(t, Len(w) + 1, Len(t)))

\* s has no leading 'v' and no whitespace character at either end
Clean(s) ==
    /\ ~StartsWith(s, <<118>>)
    /\ \A w \in WhiteChars : ~StartsWith(s, w) /\ ~EndsWith(s, w)

\* C6 as stated: for every text s with no leading 'v' and no surrounding
\* whitespace, get_helm_version returns exactly s when `helm version
\* --short` reports s or "v" + s, with or without whitespace before and
\* after it.
C6_NormalizesVersion ==
    (/\ op.name = "get_helm_version"
     /\ Resp1.status # "spawn_failed"
     /\ ValidUtf8(Resp1.out))
    => \A i \in 0..Len(Resp1.out) : \A j \in i..Len(Resp1.out) :
          LET pre == SubSeq(Resp1.out, 1, i)
              mid == SubSeq(Resp1.out, i + 1, j)
              suf == SubSeq(Resp1.out, j + 1, Len(Resp1.out))
          IN  (AllWhite(pre) /\ AllWhite(suf))
              => /\ Clean(mid) => result = OkText(mid)
                 /\ (StartsWith(mid, <<118>>) /\ Clean(Tail(mid)))
                        => result = OkText(Tail(mid))

\* The flags an InstallArg renders after its positional arguments, in the
\* declared order, with each override written by fmt
ExpectedFlags(arg, paths, fmt(_, _)) ==
    (IF arg.namespace = <<>> THEN <<>> ELSE <<"--namespace", arg.namespace[1]>>)
    \o (IF arg.develop THEN <<"--devel">> ELSE <<>>)
    \o (IF arg.version = <<>> THEN <<>> ELSE <<"--version", arg.version[1]>>)
    \o Flatten([i \in 1..Len(paths) |-> <<"--values", paths[i]>>])
    \o Flatten([i \in 1..Len(arg.opts) |->
                   <<"--set", fmt(arg.opts[i][1], arg.opts[i][2])>>])

KeyEqValue(k, x) == k \o "=" \o x
KeyEqQuoted(k, x) == k \o "=\"" \o x \o "\""

\* The value files of the InstallArg of the call that just returned
Paths ==
    IF variant = "lib" THEN op.args.values
    ELSE IF op.args.values = <<>> THEN <<>> ELSE op.args.values[1]

\* The vector the call that just returned rendered from its InstallArg
Rendered == IF op.name = "into_command" THEN result.list ELSE runs[1].argv

\* The vector is `verb` followed by the flags, the overrides in either form
FlagsFollow(vec, verb) ==
    \/ vec = verb \o ExpectedFlags(op.args, Paths, KeyEqValue)
    \/ vec = verb \o ExpectedFlags(op.args, Paths, KeyEqQuoted)

\* C7 as stated: install() renders "install", name, chart and upgrade()
\* renders "upgrade", "--install", name, chart, each followed at once by
\* the flags in the order namespace, --devel, --version, --values, --set;
\* an absent field renders nothing.
C7_Original ==
    /\ op.name = "install"
           => FlagsFollow(Rendered, <<"install", op.args.name, op.args.chart>>)
    /\ op.name = "upgrade"
           => FlagsFollow(Rendered, <<"upgrade", "--install", op.args.name,
                                      op.args.chart>>)

\* C7 amended: as stated, except that upgrade() of install_arg.rs renders
\* "--output", "json" between the chart reference and the flags.
C7_VerbThenFlagsInOrder ==
    /\ op.name = "install"
           => FlagsFollow(Rendered, <<"install", op.args.name, op.args.chart>>)
    /\ op.name = "upgrade"
           => FlagsFollow(Rendered,
                  <<"upgrade", "--install", op.args.name, op.args.chart>>
                  \o (IF variant = "helm_client" THEN <<"--output", "json">>
                      ELSE <<>>))

\* an upgrade with --devel and --version both set and no namespace
C7_Witness ==
    /\ op.name = "upgrade"
    /\ op.args.namespace = <<>>
    /\ op.args.develop
    /\ op.args.version # <<>>
    /\ Len(op.args.opts) = 2
    /\ Paths # <<>>
    /\ Rendered[5] \in {"--devel", "--output"}

\* The places of the `--set` tokens of a vector, and the n-th of them
SetPlaces(vec) == {p \in 1..Len(vec) : vec[p] = "--set"}
SetPlace(vec, n) ==
    CHOOSE p \in SetPlaces(vec) : Cardinality({q \in SetPlaces(vec) : q <= p}) = n

\* Each of the N overrides has its own --set, in insertion order, followed
\* by the token fmt writes for it
SetPerPair(vec, fmt(_, _)) ==
    /\ Cardinality(SetPlaces(vec)) = Len(op.args.opts)
    /\ \A n \in 1..Len(op.args.opts) :
          /\ SetPlace(vec, n) < Len(vec)
          /\ vec[SetPlace(vec, n) + 1] =
                 fmt(op.args.opts[n][1], op.args.opts[n][2])

HasPair(vec, flag, value) ==
    \E p \in 1..(Len(vec) - 1) : vec[p] = flag /\ vec[p + 1] = value

\* C9 as stated: get_installed_chart_by_name(name, namespace) passes
\* `--filter ^name$` and `--output json`; with Some(ns) it passes
\* `--namespace ns`, and with None the all-namespaces switch.
C9_AnchoredFilterAllNamespaces ==
    op.name = "get_installed_chart_by_name"
    => /\ HasPair(runs[1].argv, "--filter", "^" \o op.args.name \o "$")
       /\ HasPair(runs[1].argv, "--output", "json")
       /\ op.args.namespace # <<>>
              => HasPair(runs[1].argv, "--namespace", op.args.namespace[1])
       /\ op.args.namespace = <<>>
              => \E p \in 1..Len(runs[1].argv) :
                     runs[1].argv[p] \in {"-A", "--all-namespaces"}

\* C10: HelmClient::new returns Ok exactly when the `helm version` probe
\* was spawned, exited with success and wrote UTF-8 text containing
\* "version"; a probe that cannot be spawned gives an error other than
\* HelmVersionNotFound; a text without "version" gives HelmVersionNotFound
\* carrying that text; there is a client only after Ok.
C10_NewOkIffVersionProbe ==
    op.name = "new"
    => /\ result.kind = "Ok"
              <=> (/\ Resp1.status = "exit0"
                   /\ ValidUtf8(Resp1.out)
                   /\ \E i \in 1..Len(Resp1.out) :
                          /\ i + 6 <= Len(Resp1.out)
                          /\ \A k \in 0..6 : Resp1.out[i + k] = VersionWord[k + 1])
       /\ Resp1.status = "spawn_failed"
              => result.kind = "Err" /\ result.err # "HelmVersionNotFound"
       /\ (/\ Resp1.status = "exit0"
           /\ ValidUtf8(Resp1.out)
           /\ ~Contains(Resp1.out, VersionWord))
              => result = ErrText("HelmVersionNotFound", Resp1.out)
       /\ client = "ready" <=> result.kind = "Ok"
       /\ runs[1].argv = <<"version">>

\* the probe ran and wrote text, but not the word
C10_Witness ==
    /\ op.name = "new"
    /\ Resp1.status = "exit0"
    /\ Resp1.out # <<>>
    /\ result = ErrText("HelmVersionNotFound", Resp1.out)
    /\ client = "none"

WriteOps ==
    {"install", "upgrade", "repo_add", "repo_add_with_optionals",
     "repo_update", "registry", "chart_pull", "export"}

\* The call that just returned ran a write subprocess: a write operation,
\* or an uninstall that reached its delete step
Wrote == op.name \in WriteOps \/ (op.name = "uninstall" /\ DeleteRuns # {})

\* The response of that write subprocess (the last one the call started)
WriteResp == runs[Len(runs)].resp

\* C11: a write operation (install, upgrade, the delete step of uninstall,
\* repo_add, repo_add_with_optionals, repo_update, registry, chart_pull,
\* export) returns Ok(()) if and only if its subprocess exited with a
\* success status; what stdout and stderr hold makes no difference.
C11_WriteOkIffExitSuccess ==
    Wrote => /\ (result = Ok0) = (WriteResp.status = "exit0")
             /\ result.kind \in {"Ok", "Err"}
             /\ result.kind = "Err" => result = Err("CommandError")

C11_Witness ==
    /\ op.name \in WriteOps
    /\ WriteResp.status = "exit0"
    /\ Contains(WriteResp.stderr, Marker)
    /\ WriteResp.json = NotJson
    /\ result = Ok0

ClientOps ==
    WriteOps \cup ReadOps
    \cup {"uninstall", "chart_version_exists", "get_helm_version"}

\* What the operation that just returned gives for its own arguments and
\* the responses of its own subprocesses, computed afresh
Replay ==
    CASE op.name = "install" -> install(variant, op.args, Resp1)
      [] op.name = "upgrade" -> upgrade(variant, op.args, Resp1)
      [] op.name = "uninstall" ->
             uninstall(variant, op.args, Resp1, WriteResp)
      [] op.name = "repo_add" ->
             repo_add(variant, op.args.chart, op.args.location, Resp1)
      [] op.name = "repo_update" -> repo_update(variant, Resp1)
      [] op.name = "repo_add_with_optionals" ->
             repo_add_with_optionals(op.args, Resp1)
      [] op.name = "registry" -> registry(op.args, Resp1)
      [] op.name = "chart_pull" -> chart_pull(op.args, Resp1)
      [] op.name = "export" -> export(op.args, Resp1)
      [] op.name = "search_repo" ->
             search_repo(op.args.chart, op.args.version, Resp1)
      [] op.name = "versions" -> versions(op.args.chart, Resp1)
      [] op.name = "chart_version_exists" ->
             chart_version_exists(op.args.name, op.args.version, Resp1)
      [] op.name = "get_installed_chart_by_name" ->
             get_installed_chart_by_name(variant, op.args.name,
                                         op.args.namespace, Resp1)
      [] op.name = "list_installed" -> list_installed(op.args, Resp1)
      [] op.name = "get_helm_version" -> get_helm_version(variant, Resp1)

GuardedDelete ==
    /\ op.name = "uninstall"
    /\ op.args.ignore_not_found
    /\ Lookup.kind = "Ok"
    /\ Lookup.list # <<>>

\* C13 as stated: every HelmClient operation starts exactly one subprocess
\* between the call and its return, for every input.
C13_Original ==
    op.name \in ClientOps \cup {"new"} => Len(runs) = 1

\* C13 amended: every HelmClient operation starts exactly one subprocess
\* between the call and its return, except an uninstall with
\* ignore_not_found set whose lookup returns a non-empty list: that call
\* starts two, the `helm list` lookup and then the `helm uninstall`.
C13_OneRunUnlessGuardedDelete ==
    op.name \in ClientOps \cup {"new"} =>
        IF GuardedDelete
        THEN /\ Len(runs) = 2
             /\ runs[1].argv[1] = "list"
             /\ runs[2].argv[1] = "uninstall"
        ELSE Len(runs) = 1

C13_Witness ==
    /\ GuardedDelete
    /\ Len(runs) = 2
    /\ runs[1].resp.status = "exit0"
    /\ result = Ok0

InstalledOps == {"get_installed_chart_by_name", "list_installed"}

\* The call that just returned got as far as decoding its stdout
Decoding ==
    /\ op.name \in InstalledOps
    /\ Resp1.status = "exit0"
    /\ check_helm_stderr(Resp1.stderr).kind = "Ok"
    /\ Resp1.json.t = "arr"

\* The object has the six fields of the record, each once and as a string
HasRecordFields(obj) ==
    \A k \in {"name", "chart", "app_version", "revision", "updated", "status"} :
        /\ Cardinality({m \in 1..Len(obj) : obj[m].k = k}) = 1
        /\ \E m \in 1..Len(obj) : obj[m].k = k /\ obj[m].ty = "str"

\* C14: decoding stdout as a list of InstalledChart yields one record per
\* element of the JSON array, in order, with name, chart, app_version,
\* revision, updated and status copied unchanged, and skips the keys that
\* are not in the record; the sample output of one release "test_chart"
\* with a "namespace" key decodes to exactly one record with name
\* "test_chart" and chart "test_chart-1.2.32-rc2".
C14_DecodesEachElementInOrder ==
    Decoding =>
        LET items == Resp1.json.items
        IN  /\ (\A i \in 1..Len(items) : HasRecordFields(items[i]))
                   => result.kind = "Ok"
            /\ result.kind = "Ok" =>
                   /\ Len(result.list) = Len(items)
                   /\ \A i \in 1..Len(items) :
                          /\ DOMAIN result.list[i] =
                                 {"name", "chart", "app_version", "revision",
                                  "updated", "status"}
                          /\ \A k \in DOMAIN result.list[i] :
                                 \E m \in 1..Len(items[i]) :
                                     items[i][m] = Str(k, result.list[i][k])
            /\ items = <<SampleInstalled>> =>
                   /\ result.kind = "Ok"
                   /\ Len(result.list) = 1
                   /\ result.list[1].name = "test_chart"
                   /\ result.list[1].chart = "test_chart-1.2.32-rc2"

C14_Witness ==
    /\ Decoding
    /\ Len(Resp1.json.items) = 2
    /\ Resp1.json.items[1] = SampleInstalled
    /\ Resp1.json.items[2] = InstalledObj("fluvio")
    /\ result.kind = "Ok"
    /\ result.list[1].name = "test_chart"
    /\ result.list[2].name = "fluvio"

HasToken(argv, token) == \E i \in 1..Len(argv) : argv[i] = token

\* The namespaces a `helm list` or `helm uninstall` command addresses:
\* the one given with --namespace, every one with -A, else the current one
Scope(argv) ==
    IF HasToken(argv, "-A") THEN "all namespaces"
    ELSE IF \E i \in 1..(Len(argv) - 1) : argv[i] = "--namespace"
         THEN argv[(CHOOSE i \in 1..(Len(argv) - 1) :
                        argv[i] = "--namespace") + 1]
    ELSE "current namespace"

\* C15: in an uninstall with ignore_not_found set that goes on to delete,
\* the lookup asked for the release name and the namespace scope that the
\* `helm uninstall` command addresses, whether the namespace is given or
\* not.
C15_LookupCoversDeleteScope ==
    (op.name = "uninstall" /\ op.args.ignore_not_found /\ Len(runs) = 2) =>
        /\ runs[1].argv[3] = "^" \o runs[2].argv[2] \o "$"
        /\ Scope(runs[1].argv) = Scope(runs[2].argv)

\* C16: in uninstall the delete subprocess starts only once the guard is
\* resolved.  With ignore_not_found set, an error of the lookup (command
\* failure, FailedToConnect, Utf8Error, Serde) is what uninstall returns
\* and no delete is started; with ignore_not_found unset no lookup is
\* started and the delete is the only subprocess; a delete is never
\* followed by another subprocess.
C16_DeleteOnlyAfterGuard ==
    op.name = "uninstall" =>
        /\ (op.args.ignore_not_found /\ Lookup.kind = "Err") =>
               /\ result = Lookup
               /\ Len(runs) = 1
               /\ runs[1].argv[1] = "list"
        /\ ~op.args.ignore_not_found =>
               /\ Len(runs) = 1
               /\ runs[1].argv[1] = "uninstall"
        /\ DeleteRuns \subseteq {Len(runs)}

C16_Witness ==
    /\ op.name = "uninstall"
    /\ op.args.ignore_not_found
    /\ Lookup = Err("FailedToConnect")
    /\ result = Err("FailedToConnect")
    /\ DeleteRuns = {}

(***************************************************************************)
(* SpecRace: uninstall calls of several callers against one cluster.      *)
(* HelmClient::uninstall waits for its lookup subprocess and then starts  *)
(* the delete subprocess; between the two, other callers and other actors *)
(* act on the cluster.  `helm list` and `helm uninstall` answer from the  *)
(* cluster as it is when they run.                                        *)
(***************************************************************************)
Callers == {"a", "b"}
CurrentNamespace == "default"

\* Every release a cluster may hold, in the order `helm list` prints them
AllReleases ==
    <<<<"fluvio", "default">>, <<"fluvio", "prod">>,
      <<"fluvio-sys", "default">>, <<"fluvio-sys", "prod">>>>

\* The release is in the namespaces the command addresses
InScope(argv, rel) ==
    \/ Scope(argv) = "all namespaces"
    \/ Scope(argv) = "current namespace" /\ rel[2] = CurrentNamespace
    \/ Scope(argv) = rel[2]

\* What `helm list --filter ^name$ --output json ...` answers
helm_list(cl, argv) ==
    LET hit(rel) == /\ rel \in cl
                    /\ argv[3] = "^" \o rel[1] \o "$"
                    /\ InScope(argv, rel)
        rels == SelectSeq(AllReleases, hit)
    IN  [status |-> "exit0", out |-> <<>>, stderr |-> <<>>,
         json |-> Arr([i \in 1..Len(rels) |->
                         <<Str("name", rels[i][1]),
                           Str("namespace", rels[i][2])>>
                             \o Tail(InstalledObj(rels[i][1]))])]

\* The release a `helm uninstall name ...` command addresses
DeleteTarget(argv) ==
    <<argv[2], IF Scope(argv) = "current namespace" THEN CurrentNamespace
               ELSE Scope(argv)>>

\* What `helm uninstall name ...` answers, and the cluster it leaves
helm_uninstall(cl, argv) ==
    IF DeleteTarget(argv) \in cl
    THEN [resp |-> [status |-> "exit0", out |-> <<>>, json |-> NotJson,
                    stderr |-> <<>>],
          cluster |-> IF HasToken(argv, "--dry-run") THEN cl
                      ELSE cl \ {DeleteTarget(argv)}]
    ELSE [resp |-> [status |-> "exit_nonzero", out |-> <<>>,
                    json |-> NotJson, stderr |-> <<87>>],
          cluster |-> cl]

\* The uninstall requests the callers make
RaceArgs == {a \in UninstallArgs : ~a.dry_run /\ a.timeout = <<>>}

\* A caller's record before it calls:
\*   arg      the UninstallArg;  lookup  the answer of its `helm list`
\*   runs, result  as for `runs` and `result`
\*   present  the release addressed was installed when the call returned
NoCall ==
    [arg |-> CHOOSE a \in RaceArgs : TRUE,
     lookup |-> helm_list({}, <<"list", "--filter", "">>),
     runs |-> <<>>, result |-> Ok0, present |-> FALSE]

InitRace ==
    /\ variant \in Variants
    /\ client = "ready" /\ op = Idle /\ runs = <<>> /\ result = Ok0
    /\ failed = FALSE
    /\ built = <<>> /\ chain = <<>>
    /\ cluster \in SUBSET {<<"fluvio", "prod">>, <<"fluvio", "default">>}
    /\ pc = [c \in Callers |-> "idle"]
    /\ calls = [c \in Callers |-> NoCall]

\* uninstall with ignore_not_found set, up to the return of its lookup
StartLookup(c) ==
    /\ pc[c] = "idle"
    /\ \E arg \in RaceArgs :
          /\ arg.ignore_not_found
          /\ calls' = [calls EXCEPT ![c] =
                [NoCall EXCEPT
                   !.arg = arg,
                   !.lookup = helm_list(cluster,
                                 get_installed_args(variant, arg.release,
                                                    arg.namespace))]]
    /\ pc' = [pc EXCEPT ![c] = "looked"]
    /\ UNCHANGED <<variant, client, op, runs, result, failed, built, chain,
                   cluster>>

\* The rest of that uninstall: the early returns, or the delete subprocess
Finish(c) ==
    /\ pc[c] = "looked"
    /\ LET arg == calls[c].arg
           del == helm_uninstall(cluster, from_uninstall_arg(arg))
           whole == uninstall(variant, arg, calls[c].lookup, del.resp)
           deleted == Len(whole.runs) = 2
       IN  /\ cluster' = IF deleted THEN del.cluster ELSE cluster
           /\ calls' = [calls EXCEPT ![c] =
                 [@ EXCEPT !.runs = whole.runs, !.result = whole.result,
                           !.present = (DeleteTarget(from_uninstall_arg(arg))
                                           \in cluster)]]
    /\ pc' = [pc EXCEPT ![c] = "done"]
    /\ UNCHANGED <<variant, client, op, runs, result, failed, built, chain>>

\* uninstall with ignore_not_found unset: the delete subprocess at once
DeleteUnguarded(c) ==
    /\ pc[c] = "idle"
    /\ \E arg \in RaceArgs :
          /\ ~arg.ignore_not_found
          /\ LET del == helm_uninstall(cluster, from_uninstall_arg(arg))
                 whole == uninstall(variant, arg, del.resp, del.resp)
             IN  /\ cluster' = del.cluster
                 /\ calls' = [calls EXCEPT ![c] =
                       [NoCall EXCEPT
                          !.arg = arg, !.runs = whole.runs,
                          !.result = whole.result,
                          !.present = (DeleteTarget(from_uninstall_arg(arg))
                                          \in cluster)]]
    /\ pc' = [pc EXCEPT ![c] = "done"]
    /\ UNCHANGED <<variant, client, op, runs, result, failed, built, chain>>

\* The caller drops the result
Return(c) ==
    /\ pc[c] = "done"
    /\ pc' = [pc EXCEPT ![c] = "idle"]
    /\ calls' = [calls EXCEPT ![c] = NoCall]
    /\ UNCHANGED <<variant, client, op, runs, result, failed, built, chain,
                   cluster>>

\* Another actor installs a release
OtherInstalls ==
    /\ \E rel \in {AllReleases[i] : i \in DOMAIN AllReleases} \ cluster : cluster' = cluster \cup {rel}
    /\ UNCHANGED <<variant, client, op, runs, result, failed, built, chain,
                   pc, calls>>

\* Another actor removes a release
OtherRemoves ==
    /\ \E rel \in cluster : cluster' = cluster \ {rel}
    /\ UNCHANGED <<variant, client, op, runs, result, failed, built, chain,
                   pc, calls>>

NextRace ==
    \/ \E c \in Callers : StartLookup(c)
    \/ \E c \in Callers : Finish(c)
    \/ \E c \in Callers : DeleteUnguarded(c)
    \/ \E c \in Callers : Return(c)
    \/ OtherInstalls
    \/ OtherRemoves

SpecRace == InitRace /\ [][NextRace]_vars

\* What the lookup of caller c returned
Found(c) ==
    get_installed_chart_by_name(variant, calls[c].arg.release,
                                calls[c].arg.namespace, calls[c].lookup).result

\* Caller c's uninstall with ignore_not_found set has returned
Guarded(c) == pc[c] = "done" /\ calls[c].arg.ignore_not_found

\* C17: the guard is a check-then-act without a re-check.  After a lookup
\* that found the release, the delete subprocess is started whatever has
\* happened to the release since, and the call returns Ok(()) only if the
\* release was still there: when another uninstall or another actor has
\* removed it in between, the call returns the delete's error.  After an
\* empty lookup the call returns Ok(()) without a delete, also when the
\* release has been installed in between and exists at the return.
C17_GuardIsNotAtomic ==
    \A c \in Callers :
        Guarded(c) =>
            /\ (Found(c).kind = "Ok" /\ Found(c).list # <<>>) =>
                   /\ Len(calls[c].runs) = 2
                   /\ calls[c].runs[2].argv[1] = "uninstall"
                   /\ calls[c].present => calls[c].result = Ok0
                   /\ ~calls[c].present =>
                          calls[c].result = Err("CommandError")
            /\ (Found(c).kind = "Ok" /\ Found(c).list = <<>>) =>
                   /\ Len(calls[c].runs) = 1
                   /\ calls[c].result = Ok0

\* Caller a's lookup found the release in the namespace it named, the
\* release was gone when its delete ran, and the call returned the error;
\* caller b's lookup found nothing and its call returned Ok(()) while the
\* release exists.
C17_Witness ==
    /\ Guarded("a")
    /\ calls["a"].arg.namespace = <<"prod">>
    /\ Found("a").list # <<>>
    /\ ~calls["a"].present
    /\ calls["a"].result = Err("CommandError")
    /\ Guarded("b")
    /\ Found("b").list = <<>>
    /\ calls["b"].present
    /\ calls["b"].result = Ok0

\* C18: for every InstallArg the conversion of the InstallArg into a
\* Command renders the argument vector that InstallArg::install() renders:
\* the same tokens in the same order, the form of each --set value and any
\* output-format flag included.
C18_ConversionEqualsInstall ==
    op.name = "into_command" => result.list = install_args(variant, op.args)

(***************************************************************************)
(* SpecBuilder: an InstallArg built by InstallArg::new and a chain of     *)
(* builder calls.  `chain` keeps the calls, [m |-> method, x |-> its      *)
(* argument], the call of `new` first.                                     *)
(***************************************************************************)
\* InstallArg::new (values: vec![] in lib.rs, None in install_arg.rs)
InstallArg_new(name, chart) ==
    [name |-> name, chart |-> chart, version |-> <<>>, namespace |-> <<>>,
     opts |-> <<>>, values |-> <<>>, develop |-> FALSE]

\* InstallArg::version
InstallArg_version(arg, version) == [arg EXCEPT !.version = <<version>>]

\* InstallArg::namespace
InstallArg_namespace(arg, ns) == [arg EXCEPT !.namespace = <<ns>>]

\* opts adding its argument to the overrides already set
InstallArg_opts_extends(arg, options) == [arg EXCEPT !.opts = @ \o options]

\* InstallArg::opts
InstallArg_opts(arg, options) == [arg EXCEPT !.opts = options]

\* InstallArg::opt
InstallArg_opt(arg, key, value) ==
    [arg EXCEPT !.opts = Append(@, <<key, value>>)]

\* InstallArg::develop
InstallArg_develop(arg) == [arg EXCEPT !.develop = TRUE]

\* InstallArg::values (a list in lib.rs, an option of a list in
\* install_arg.rs)
InstallArg_values(arg, values) == [arg EXCEPT !.values = values]

\* lib.rs InstallArg::value
InstallArg_value_lib(arg, value) == [arg EXCEPT !.values = Append(@, value)]

\* install_arg.rs InstallArg::value: None becomes Some(vec![]) first
InstallArg_value_hc(arg, value) ==
    [arg EXCEPT !.values =
        <<Append(IF @ = <<>> THEN <<>> ELSE @[1], value)>>]

InitBuilder ==
    /\ variant \in Variants
    /\ client = "none" /\ op = Idle /\ runs = <<>> /\ result = Ok0
    /\ failed = FALSE
    /\ cluster = {} /\ pc = <<>> /\ calls = <<>>
    /\ \E name \in Names, chart \in ChartRefs :
          /\ built = InstallArg_new(name, chart)
          /\ chain = <<[m |-> "new", x |-> <<name, chart>>]>>

\* One more builder call: the InstallArg it gives, and the call recorded
Built(arg, m, x) ==
    /\ built' = arg
    /\ chain' = Append(chain, [m |-> m, x |-> x])
    /\ UNCHANGED <<variant, client, op, runs, result, failed,
                   cluster, pc, calls>>

BuildVersion ==
    /\ Len(chain) <= MaxCalls
    /\ \E version \in Versions :
          Built(InstallArg_version(built, version), "version", version)

BuildNamespace ==
    /\ Len(chain) <= MaxCalls
    /\ \E ns \in Namespaces :
          Built(InstallArg_namespace(built, ns), "namespace", ns)

BuildOpts ==
    /\ Len(chain) <= MaxCalls
    /\ \E options \in {<<>>, <<<<"replicas", "1">>>>} :
          Built(InstallArg_opts(built, options), "opts", options)

BuildOpt ==
    /\ Len(chain) <= MaxCalls
    /\ \E pair \in OptPairs :
          Built(InstallArg_opt(built, pair[1], pair[2]), "opt", pair)

BuildDevelop ==
    /\ Len(chain) <= MaxCalls
    /\ Built(InstallArg_develop(built), "develop", <<>>)

BuildValues ==
    /\ Len(chain) <= MaxCalls
    /\ \E values \in IF variant = "lib" THEN {<<>>, <<"a.yaml">>}
                     ELSE Option({<<>>, <<"a.yaml">>}) :
          Built(InstallArg_values(built, values), "values", values)

BuildValue ==
    /\ Len(chain) <= MaxCalls
    /\ \E value \in ValuePaths :
          Built(IF variant = "lib" THEN InstallArg_value_lib(built, value)
                ELSE InstallArg_value_hc(built, value),
                "value", value)

NextBuilder ==
    \/ BuildVersion
    \/ BuildNamespace
    \/ BuildOpts
    \/ BuildOpt
    \/ BuildDevelop
    \/ BuildValues
    \/ BuildValue

SpecBuilder == InitBuilder /\ [][NextBuilder]_vars

\* The place in the chain of the last call of method m, 0 if there is none
LastCall(m) ==
    IF \E i \in 1..Len(chain) : chain[i].m = m
    THEN CHOOSE i \in 1..Len(chain) :
             /\ chain[i].m = m
             /\ \A j \in (i + 1)..Len(chain) : chain[j].m # m
    ELSE 0

\* The argument of the last call of m as an option
LastArg(m) == IF LastCall(m) = 0 THEN <<>> ELSE <<chain[LastCall(m)].x>>

\* The arguments of the calls of `one` made after the last call of `all`
Later(all, one) ==
    LET tail == SubSeq(chain, LastCall(all) + 1, Len(chain))
        isOne(c) == c.m = one
        picked == SelectSeq(tail, isOne)
    IN  [i \in 1..Len(picked) |-> picked[i].x]

\* A `values` argument or field as a list (None is the empty list)
ListOf(values) == IF variant = "lib" THEN values ELSE SomeValues(values)

\* C19: after InstallArg::new and any chain of builder calls, opts is the
\* argument of the last opts(..) call (empty if there was none) followed
\* by the pairs of the later opt(k, v) calls in call order; values is the
\* argument of the last values(..) call followed by the paths of the later
\* value(p) calls in call order; version and namespace are what their last
\* call gave (None without one), develop is set exactly if develop() was
\* called, and name and chart are those given to new: each field depends
\* on the calls of its own methods only.
C19_BuilderFields ==
    chain # <<>> =>
        /\ built.opts =
               (IF LastCall("opts") = 0 THEN <<>>
                ELSE chain[LastCall("opts")].x) \o Later("opts", "opt")
        /\ ListOf(built.values) =
               (IF LastCall("values") = 0 THEN <<>>
                ELSE ListOf(chain[LastCall("values")].x))
                   \o Later("values", "value")
        /\ built.version = LastArg("version")
        /\ built.namespace = LastArg("namespace")
        /\ built.develop = (LastCall("develop") # 0)
        /\ built.name = chain[1].x[1]
        /\ built.chart = chain[1].x[2]

C19_Witness ==
    /\ Len(chain) = 4
    /\ chain[2].m = "opt"
    /\ chain[3].m = "opts"
    /\ chain[3].x # <<>>
    /\ chain[4].m = "opt"
    /\ built.opts = chain[3].x \o <<chain[4].x>>
    /\ built.values = <<>>
    /\ ~built.develop

====
